---- MODULE Spec2Model ----
(***************************************************************************)
(* A model of the Lox lexical scanner of src/src/scanner.rs.               *)
(*                                                                         *)
(* The state is the Scanner struct (source, tokens, start, current, line), *)
(* the local nesting counter of block_comment, the diagnostic sink written *)
(* by Scanner::error, the control position pc inside scan_tokens, and the  *)
(* number of scan_tokens calls made on the instance.  Every loop iteration *)
(* of the code is one step.  Offsets are the code's 0-based offsets; the   *)
(* character self.source[i] is source[i + 1] here.                         *)
(***************************************************************************)
EXTENDS Integers, Sequences, FiniteSets, TLC

VARIABLES source, tokens, start, current, line, nesting, errors, pc, calls

vars == <<source, tokens, start, current, line, nesting, errors, pc, calls>>

(***************************************************************************)
(* Bounds of the model.                                                    *)
(***************************************************************************)
\* longest source over the whole alphabet
MaxLen == 4
\* longest source over the comment alphabet
MaxCommentLen == 8
\* longest source over the string alphabet
MaxStringLen == 5
\* number of scan_tokens calls made on one Scanner
MaxCalls == 2
\* longest source over the operator alphabet
MaxOperatorLen == 3
\* longest source over the number alphabet
MaxNumberLen == 5
\* longest source over the identifier alphabet
MaxIdentLen == 4

(***************************************************************************)
(* Characters.  A char is a one-character string; NUL stands for '\0'.     *)
(***************************************************************************)
NUL == "NUL"

Digits == {"0", "1", "2", "3", "4", "5", "6", "7", "8", "9"}

Letters ==
  {"a", "b", "c", "d", "e", "f", "g", "h", "i", "j", "k", "l", "m",
   "n", "o", "p", "q", "r", "s", "t", "u", "v", "w", "x", "y", "z",
   "A", "B", "C", "D", "E", "F", "G", "H", "I", "J", "K", "L", "M",
   "N", "O", "P", "Q", "R", "S", "T", "U", "V", "W", "X", "Y", "Z"}

is_ascii_digit(c) == c \in Digits

is_ascii_alphabetic(c) == c \in Letters

is_ascii_alphanumeric(c) == c \in Letters \cup Digits

Whitespace == {" ", "\r", "\t"}

SingleChar ==
  [c \in {"(", ")", "{", "}", ",", ".", "-", "+", ";", "*"} |->
     CASE c = "(" -> "LeftParen"
       [] c = ")" -> "RightParen"
       [] c = "{" -> "LeftBrace"
       [] c = "}" -> "RightBrace"
       [] c = "," -> "Comma"
       [] c = "." -> "Dot"
       [] c = "-" -> "Minus"
       [] c = "+" -> "Plus"
       [] c = ";" -> "Semicolon"
       [] c = "*" -> "Star"]

OneOrTwo ==
  [c \in {"!", "=", "<", ">"} |->
     CASE c = "!" -> <<"Bang", "BangEqual">>
       [] c = "=" -> <<"Equal", "EqualEqual">>
       [] c = "<" -> <<"Less", "LessEqual">>
       [] c = ">" -> <<"Greater", "GreaterEqual">>]

(***************************************************************************)
(* Sources the scanner is run on.                                          *)
(***************************************************************************)
Alphabet == {"/", "*", "\n", "\"", "\\", " ", "\t", "\r", "1", ".", "a", "="}

CommentAlphabet == {"/", "*", "\n"}

StringAlphabet == {"\"", "\\", "\n", "a"}

Strings(A, n) == UNION {[1..k -> A] : k \in 0..n}

OperatorAlphabet == {"!", "=", "<", ">", "a", "@"}

NumberAlphabet == {"0", "1", ".", "a"}

IdentAlphabet == {"o", "r", "i", "f", "_", "1", " "}

\* the reserved words, each alone and with one more character before or after it
KeywordTexts ==
  {<<"a", "n", "d">>,
   <<"c", "l", "a", "s", "s">>,
   <<"e", "l", "s", "e">>,
   <<"f", "a", "l", "s", "e">>,
   <<"f", "u", "n">>,
   <<"f", "o", "r">>,
   <<"i", "f">>,
   <<"n", "i", "l">>,
   <<"o", "r">>,
   <<"p", "r", "i", "n", "t">>,
   <<"r", "e", "t", "u", "r", "n">>,
   <<"s", "u", "p", "e", "r">>,
   <<"t", "h", "i", "s">>,
   <<"t", "r", "u", "e">>,
   <<"v", "a", "r">>,
   <<"w", "h", "i", "l", "e">>}

KeywordSources ==
  KeywordTexts
    \cup {<<c>> \o w : c \in {"s", "_", "1", " "}, w \in KeywordTexts}
    \cup {w \o <<c>> : c \in {"s", "_", "1", " "}, w \in KeywordTexts}
    \cup {w \o <<" ">> \o w \o <<c>> : c \in {"s", "_", "1"}, w \in KeywordTexts}

Sources ==
  Strings(Alphabet, MaxLen) \cup Strings(CommentAlphabet, MaxCommentLen)
    \cup Strings(StringAlphabet, MaxStringLen)
    \cup Strings(OperatorAlphabet, MaxOperatorLen)
    \cup Strings(NumberAlphabet, MaxNumberLen)
    \cup Strings(IdentAlphabet, MaxIdentLen)
    \cup KeywordSources

(***************************************************************************)
(* Tokens and literals (src/src/token.rs).                                 *)
(***************************************************************************)
NoLiteral == [kind |-> "None", str |-> <<>>, num |-> 0, scale |-> 0, bool |-> FALSE]

LiteralStr(s) == [kind |-> "Str", str |-> s, num |-> 0, scale |-> 0, bool |-> FALSE]

LiteralNumber(n, k) == [kind |-> "Number", str |-> <<>>, num |-> n, scale |-> k, bool |-> FALSE]

LiteralBool(b) == [kind |-> "Bool", str |-> <<>>, num |-> 0, scale |-> 0, bool |-> b]

LiteralNil == [kind |-> "Nil", str |-> <<>>, num |-> 0, scale |-> 0, bool |-> FALSE]

Token(token_type, lexeme, literal, ln) ==
  [token_type |-> token_type, lexeme |-> lexeme, literal |-> literal, line |-> ln]

\* A slip in scan_tokens: the Eof token stamped with the first line.
EofTokenFirstLine(ln) == Token("Eof", <<>>, NoLiteral, 1)

EofToken(ln) == Token("Eof", <<>>, NoLiteral, ln)

(***************************************************************************)
(* Cursor helpers.                                                         *)
(***************************************************************************)
is_at_end(cur) == cur >= Len(source)

peek(cur) == IF is_at_end(cur) THEN NUL ELSE source[cur + 1]

peek_next(cur) == IF cur + 1 >= Len(source) THEN NUL ELSE source[cur + 2]

\* A slip in advance: the character is returned and the cursor is left in place.
advanceStuck(cur) == cur

advance(cur) == cur + 1

\* A slip in match_char: the next character is taken whatever it is.
match_char_any(expected, cur) == ~is_at_end(cur)

match_char(expected, cur) == ~is_at_end(cur) /\ source[cur + 1] = expected

\* A slip in add_token_with_literal: the lexeme loses its last character.
add_token_with_literal_short(token_type, literal, st, cur, ln) ==
  Append(tokens, Token(token_type, SubSeq(source, st + 1, cur - 1), literal, ln))

add_token_with_literal(token_type, literal, st, cur, ln) ==
  Append(tokens, Token(token_type, SubSeq(source, st + 1, cur), literal, ln))

add_token(token_type, st, cur, ln) ==
  add_token_with_literal(token_type, NoLiteral, st, cur, ln)

\* A slip in error: the diagnostic is not written.
errorDropped(message) == errors

error(message) == Append(errors, [line |-> line, message |-> message])

\* A slip in the consumers: a newline inside a string or comment is not counted.
LineAfterUncounted(c, ln) == ln

LineAfter(c, ln) == IF c = "\n" THEN ln + 1 ELSE ln

(***************************************************************************)
(* Scanner::new.                                                           *)
(***************************************************************************)
Init ==
  /\ source \in Sources
  /\ tokens = <<>>
  /\ start = 0
  /\ current = 0
  /\ line = 1
  /\ nesting = 0
  /\ errors = <<>>
  /\ pc = "ready"
  /\ calls = 0

(***************************************************************************)
(* scan_tokens: the call, and the exit of its loop.                        *)
(***************************************************************************)
scan_tokens ==
  /\ pc \in {"ready", "returned"}
  /\ calls < MaxCalls
  /\ calls' = calls + 1
  /\ pc' = "scan_tokens"
  /\ UNCHANGED <<source, tokens, start, current, line, nesting, errors>>

scan_tokens_return ==
  /\ pc = "scan_tokens"
  /\ is_at_end(current)
  /\ tokens' = Append(tokens, EofToken(line))
  /\ pc' = "returned"
  /\ UNCHANGED <<source, start, current, line, nesting, errors, calls>>

(***************************************************************************)
(* str::parse::<f64> on the text of a number, restricted to texts made of  *)
(* ASCII digits and '.': the parse succeeds when the text holds at most    *)
(* one '.' and at least one digit.  The value is num / 10^scale, reduced   *)
(* so that equal floats have equal representations.                        *)
(***************************************************************************)
DigitValue(c) ==
  CASE c = "0" -> 0 [] c = "1" -> 1 [] c = "2" -> 2 [] c = "3" -> 3 [] c = "4" -> 4
    [] c = "5" -> 5 [] c = "6" -> 6 [] c = "7" -> 7 [] c = "8" -> 8 [] c = "9" -> 9

RECURSIVE DigitsValue(_)
DigitsValue(s) ==
  IF s = <<>> THEN 0
  ELSE DigitsValue(SubSeq(s, 1, Len(s) - 1)) * 10 + DigitValue(s[Len(s)])

RECURSIVE Reduce(_, _)
Reduce(n, k) == IF k > 0 /\ n % 10 = 0 THEN Reduce(n \div 10, k - 1) ELSE <<n, k>>

parse_f64(s) ==
  LET dots == {i \in DOMAIN s : s[i] = "."}
      ok == /\ \A i \in DOMAIN s : s[i] \in Digits \cup {"."}
            /\ Cardinality(dots) <= 1
            /\ Len(s) > Cardinality(dots)
      k == IF dots = {} THEN 0 ELSE Len(s) - (CHOOSE i \in dots : TRUE)
      v == Reduce(DigitsValue(SelectSeq(s, is_ascii_digit)), k)
  IN  IF ok THEN [ok |-> TRUE, num |-> v[1], scale |-> v[2]]
      ELSE [ok |-> FALSE, num |-> 0, scale |-> 0]

(***************************************************************************)
(* The keyword table of identifier.                                        *)
(***************************************************************************)
KeywordType(text) ==
  CASE text = <<"a", "n", "d">> -> "And"
    [] text = <<"c", "l", "a", "s", "s">> -> "Class"
    [] text = <<"e", "l", "s", "e">> -> "Else"
    [] text = <<"f", "a", "l", "s", "e">> -> "False"
    [] text = <<"f", "u", "n">> -> "Fun"
    [] text = <<"f", "o", "r">> -> "For"
    [] text = <<"i", "f">> -> "If"
    [] text = <<"n", "i", "l">> -> "Nil"
    [] text = <<"o", "r">> -> "Or"
    [] text = <<"p", "r", "i", "n", "t">> -> "Print"
    [] text = <<"r", "e", "t", "u", "r", "n">> -> "Return"
    [] text = <<"s", "u", "p", "e", "r">> -> "Super"
    [] text = <<"t", "h", "i", "s">> -> "This"
    [] text = <<"t", "r", "u", "e">> -> "True"
    [] text = <<"v", "a", "r">> -> "Var"
    [] text = <<"w", "h", "i", "l", "e">> -> "While"
    [] OTHER -> "Identifier"

\* A slip in identifier: the literal of true, false and nil is left out.
KeywordLiteralNone(token_type) == NoLiteral

KeywordLiteral(token_type) ==
  CASE token_type = "False" -> LiteralBool(FALSE)
    [] token_type = "True" -> LiteralBool(TRUE)
    [] token_type = "Nil" -> LiteralNil
    [] OTHER -> NoLiteral

(***************************************************************************)
(* scan_token: one arm of the match per action.  Each first takes the      *)
(* character at current (advance) after scan_tokens set start = current.   *)
(***************************************************************************)
Dispatching == pc = "scan_tokens" /\ ~is_at_end(current)

scan_token_single ==
  /\ Dispatching
  /\ source[current + 1] \in DOMAIN SingleChar
  /\ start' = current
  /\ current' = advance(current)
  /\ tokens' = add_token(SingleChar[source[current + 1]], current, advance(current), line)
  /\ UNCHANGED <<source, line, nesting, errors, pc, calls>>

scan_token_operator ==
  /\ Dispatching
  /\ source[current + 1] \in DOMAIN OneOrTwo
  /\ LET c == source[current + 1]
         m == match_char("=", advance(current))
         cur == IF m THEN advance(current) + 1 ELSE advance(current)
     IN  /\ current' = cur
         /\ tokens' = add_token(OneOrTwo[c][IF m THEN 2 ELSE 1], current, cur, line)
  /\ start' = current
  /\ UNCHANGED <<source, line, nesting, errors, pc, calls>>

scan_token_slash ==
  /\ Dispatching
  /\ source[current + 1] = "/"
  /\ start' = current
  /\ IF match_char("/", advance(current))
     THEN /\ current' = advance(current) + 1
          /\ pc' = "line_comment"
          /\ UNCHANGED <<tokens, nesting>>
     ELSE IF match_char("*", advance(current))
     THEN /\ current' = advance(current) + 1
          /\ pc' = "block_comment"
          /\ nesting' = 1
          /\ UNCHANGED tokens
     ELSE /\ current' = advance(current)
          /\ tokens' = add_token("Slash", current, advance(current), line)
          /\ UNCHANGED <<pc, nesting>>
  /\ UNCHANGED <<source, line, errors, calls>>

scan_token_whitespace ==
  /\ Dispatching
  /\ source[current + 1] \in Whitespace
  /\ start' = current
  /\ current' = advance(current)
  /\ UNCHANGED <<source, tokens, line, nesting, errors, pc, calls>>

scan_token_newline ==
  /\ Dispatching
  /\ source[current + 1] = "\n"
  /\ start' = current
  /\ current' = advance(current)
  /\ line' = line + 1
  /\ UNCHANGED <<source, tokens, nesting, errors, pc, calls>>

scan_token_quote ==
  /\ Dispatching
  /\ source[current + 1] = "\""
  /\ start' = current
  /\ current' = advance(current)
  /\ pc' = "string"
  /\ UNCHANGED <<source, tokens, line, nesting, errors, calls>>

scan_token_digit ==
  /\ Dispatching
  /\ is_ascii_digit(source[current + 1])
  /\ start' = current
  /\ current' = advance(current)
  /\ pc' = "number"
  /\ UNCHANGED <<source, tokens, line, nesting, errors, calls>>

scan_token_alpha ==
  /\ Dispatching
  /\ is_ascii_alphabetic(source[current + 1]) \/ source[current + 1] = "_"
  /\ start' = current
  /\ current' = advance(current)
  /\ pc' = "identifier"
  /\ UNCHANGED <<source, tokens, line, nesting, errors, calls>>

Expected ==
  DOMAIN SingleChar \cup DOMAIN OneOrTwo \cup Whitespace \cup {"/", "\n", "\"", "_"}
    \cup Digits \cup Letters

\* A slip in scan_token: an unexpected character ends the scan.
scan_token_unexpected_fatal ==
  /\ Dispatching
  /\ source[current + 1] \notin Expected
  /\ start' = current
  /\ current' = Len(source)
  /\ errors' = error("Unexpected character")
  /\ UNCHANGED <<source, tokens, line, nesting, pc, calls>>

scan_token_unexpected ==
  /\ Dispatching
  /\ source[current + 1] \notin Expected
  /\ start' = current
  /\ current' = advance(current)
  /\ errors' = error("Unexpected character")
  /\ UNCHANGED <<source, tokens, line, nesting, pc, calls>>

(***************************************************************************)
(* The loop of the '//' arm: one iteration, or its exit.                   *)
(***************************************************************************)
\* A slip in the '//' loop: the newline that ends the comment is consumed by it.
InLineCommentThroughNewline(cur) == ~is_at_end(cur)

\* A slip in the '//' loop: it stops at a '*' as well as at a newline.
InLineCommentUntilStar(cur) == peek(cur) # "\n" /\ peek(cur) # "*" /\ ~is_at_end(cur)

InLineComment(cur) == peek(cur) # "\n" /\ ~is_at_end(cur)

line_comment ==
  /\ pc = "line_comment"
  /\ IF InLineComment(current)
     THEN current' = advance(current) /\ UNCHANGED pc
     ELSE pc' = "scan_tokens" /\ UNCHANGED current
  /\ UNCHANGED <<source, tokens, start, line, nesting, errors, calls>>

(***************************************************************************)
(* block_comment: one iteration of its loop, or its exit.                  *)
(***************************************************************************)
\* A slip in block_comment: the final test is n >= 0.
UnterminatedAlways(n) == n >= 0

Unterminated(n) == n > 0

\* A slip in block_comment: an inner opening is not recognised (no nesting).
AtCommentOpenNever(cur) == FALSE

AtCommentOpen(cur) == peek(cur) = "/" /\ peek_next(cur) = "*"

\* A slip in block_comment: the '*' just consumed (that of an opening "/*"
\* included) closes a comment with the '/' that follows it.
AtCommentCloseReusingStar(cur) ==
  \/ peek(cur) = "*" /\ peek_next(cur) = "/"
  \/ cur > 0 /\ source[cur] = "*" /\ peek(cur) = "/" /\ peek_next(cur) # "*"

\* A slip in block_comment: the closing test does not look at the second character.
AtCommentCloseNoLookahead(cur) == peek(cur) = "*"

AtCommentClose(cur) == peek(cur) = "*" /\ peek_next(cur) = "/"

block_comment ==
  /\ pc = "block_comment"
  /\ IF nesting > 0 /\ ~is_at_end(current)
     THEN /\ IF AtCommentOpen(current)
             THEN /\ current' = advance(advance(current))
                  /\ nesting' = nesting + 1
                  /\ UNCHANGED line
             ELSE IF AtCommentClose(current)
             THEN /\ current' = advance(advance(current))
                  /\ nesting' = nesting - 1
                  /\ UNCHANGED line
             ELSE /\ line' = LineAfter(peek(current), line)
                  /\ current' = advance(current)
                  /\ UNCHANGED nesting
          /\ UNCHANGED <<pc, errors>>
     ELSE /\ errors' = IF Unterminated(nesting)
                       THEN error("Unterminated block comment")
                       ELSE errors
          /\ pc' = "scan_tokens"
          /\ nesting' = 0
          /\ UNCHANGED <<current, line>>
  /\ UNCHANGED <<source, tokens, start, calls>>

(***************************************************************************)
(* string: one iteration of its loop, or what follows the loop.            *)
(***************************************************************************)
\* A slip in string: the value keeps the closing quote.
StringValueWithQuote(st, cur) == SubSeq(source, st + 2, cur)

StringValue(st, cur) == SubSeq(source, st + 2, cur - 1)

\* A slip in string: a newline ends the literal, which is reported unterminated.
string_single_line ==
  /\ pc = "string"
  /\ IF peek(current) # "\"" /\ peek(current) # "\n" /\ ~is_at_end(current)
     THEN /\ line' = LineAfter(peek(current), line)
          /\ current' = advance(current)
          /\ UNCHANGED <<tokens, errors, pc>>
     ELSE IF is_at_end(current) \/ peek(current) = "\n"
     THEN /\ errors' = error("Unterminated string")
          /\ pc' = "scan_tokens"
          /\ UNCHANGED <<tokens, current, line>>
     ELSE /\ current' = advance(current)
          /\ tokens' = add_token_with_literal("String",
                         LiteralStr(StringValue(start, advance(current))),
                         start, advance(current), line)
          /\ pc' = "scan_tokens"
          /\ UNCHANGED <<errors, line>>
  /\ UNCHANGED <<source, start, nesting, calls>>

string ==
  /\ pc = "string"
  /\ IF peek(current) # "\"" /\ ~is_at_end(current)
     THEN /\ line' = LineAfter(peek(current), line)
          /\ current' = advance(current)
          /\ UNCHANGED <<tokens, errors, pc>>
     ELSE IF is_at_end(current)
     THEN /\ errors' = error("Unterminated string")
          /\ pc' = "scan_tokens"
          /\ UNCHANGED <<tokens, current, line>>
     ELSE /\ current' = advance(current)
          /\ tokens' = add_token_with_literal("String",
                         LiteralStr(StringValue(start, advance(current))),
                         start, advance(current), line)
          /\ pc' = "scan_tokens"
          /\ UNCHANGED <<errors, line>>
  /\ UNCHANGED <<source, start, nesting, calls>>

(***************************************************************************)
(* number: the integer part, the optional fraction, and the emission.      *)
(***************************************************************************)
\* The message of the fallback is written without the text that follows it
\* in the code ("Invalid number: {num_str}").
NumberDone ==
  LET num_str == SubSeq(source, start + 1, current)
      value == parse_f64(num_str)
  IN  /\ errors' = IF value.ok THEN errors ELSE error("Invalid number")
      /\ tokens' = add_token_with_literal("Number",
                     LiteralNumber(value.num, value.scale), start, current, line)
      /\ pc' = "scan_tokens"
      /\ UNCHANGED current

\* A slip in number: the '.' is taken without looking at what follows it.
AtFractionNoLookahead(cur) == peek(cur) = "."

AtFraction(cur) == peek(cur) = "." /\ is_ascii_digit(peek_next(cur))

\* A slip in number: the fraction loop takes further dots as well.
InFractionDots(cur) == is_ascii_digit(peek(cur)) \/ peek(cur) = "."

InFraction(cur) == is_ascii_digit(peek(cur))

number ==
  /\ pc = "number"
  /\ IF is_ascii_digit(peek(current))
     THEN current' = advance(current) /\ UNCHANGED <<tokens, errors, pc>>
     ELSE IF AtFraction(current)
     THEN /\ current' = advance(current)
          /\ pc' = "fraction"
          /\ UNCHANGED <<tokens, errors>>
     ELSE NumberDone
  /\ UNCHANGED <<source, start, line, nesting, calls>>

number_fraction ==
  /\ pc = "fraction"
  /\ IF InFraction(current)
     THEN current' = advance(current) /\ UNCHANGED <<tokens, errors, pc>>
     ELSE NumberDone
  /\ UNCHANGED <<source, start, line, nesting, calls>>

(***************************************************************************)
(* identifier: one iteration of its loop, or the keyword lookup.           *)
(***************************************************************************)
\* A slip in identifier: the loop takes letters and '_' but no digits.
InIdentifierNoDigits(cur) == is_ascii_alphabetic(peek(cur)) \/ peek(cur) = "_"

InIdentifier(cur) == is_ascii_alphanumeric(peek(cur)) \/ peek(cur) = "_"

identifier ==
  /\ pc = "identifier"
  /\ IF InIdentifier(current)
     THEN current' = advance(current) /\ UNCHANGED <<tokens, pc>>
     ELSE LET text == SubSeq(source, start + 1, current)
              token_type == KeywordType(text)
          IN  /\ tokens' = add_token_with_literal(token_type,
                             KeywordLiteral(token_type), start, current, line)
              /\ pc' = "scan_tokens"
              /\ UNCHANGED current
  /\ UNCHANGED <<source, start, line, nesting, errors, calls>>

(***************************************************************************)
(* The scanner's own steps, the caller's calls, and the specifications.    *)
(***************************************************************************)
Step ==
  \/ scan_tokens_return
  \/ scan_token_single
  \/ scan_token_operator
  \/ scan_token_slash
  \/ scan_token_whitespace
  \/ scan_token_newline
  \/ scan_token_quote
  \/ scan_token_digit
  \/ scan_token_alpha
  \/ scan_token_unexpected
  \/ line_comment
  \/ block_comment
  \/ string
  \/ number
  \/ number_fraction
  \/ identifier

Next == scan_tokens \/ Step

Spec == Init /\ [][Next]_vars

\* The sources one shorter than the bounds, for the checks of liveness.
ShortSources ==
  Strings(Alphabet, MaxLen - 1) \cup Strings(CommentAlphabet, MaxCommentLen - 1)
    \cup Strings(StringAlphabet, MaxStringLen - 1)
    \cup Strings(OperatorAlphabet, MaxOperatorLen - 1)
    \cup Strings(NumberAlphabet, MaxNumberLen - 1)
    \cup Strings(IdentAlphabet, MaxIdentLen - 1)
    \cup KeywordSources

InitShort == Init /\ source \in ShortSources

\* The scan is synchronous and single-threaded: a started scan keeps running.
FairSpec == InitShort /\ [][Next]_vars /\ WF_vars(Step)

(***************************************************************************)
(* Helpers of the properties.                                              *)
(***************************************************************************)
\* the number of '\n' among the first n characters of s
NewlinesIn(s, n) == Cardinality({i \in 1..n : s[i] = "\n"})

LastToken == tokens[Len(tokens)]

FirstCallReturned == pc = "returned" /\ calls = 1

(***************************************************************************)
(* C1: after a single scan_tokens call on a fresh Scanner the returned     *)
(* sequence ends with an Eof token that has an empty lexeme, no literal    *)
(* and the scanner's final line, and no other element has kind Eof.        *)
(***************************************************************************)
C1_EofTerminated ==
  FirstCallReturned =>
    /\ Len(tokens) >= 1
    /\ LastToken.token_type = "Eof"
    /\ LastToken.lexeme = <<>>
    /\ LastToken.literal.kind = "None"
    /\ LastToken.line = line
    /\ \A i \in 1..(Len(tokens) - 1) : tokens[i].token_type # "Eof"

C1_Witness == FirstCallReturned /\ Len(tokens) >= 3 /\ line >= 2

PcRank == CASE pc \in {"ready", "returned"} -> 0 [] pc = "scan_tokens" -> 1 [] OTHER -> 2

\* decreases with every step of the scanner, and is never negative
Variant == 3 * (Len(source) - current) + PcRank

(***************************************************************************)
(* C2: the scan terminates.  Every dispatch of the main loop strictly      *)
(* increases current, no step of an inner loop decreases it, and a started *)
(* scan reaches the return of scan_tokens (where the Eof token is pushed). *)
(***************************************************************************)
C2_Terminates ==
  /\ [][(Dispatching => current' > current) /\ (Step => Variant' < Variant)]_vars
  /\ [](Variant >= 0)
  /\ (pc = "scan_tokens") ~> (pc = "returned" /\ current = Len(source)
                                /\ LastToken.token_type = "Eof")

C2_Witness ==
  FirstCallReturned /\ current = Len(source) /\ Len(source) >= 5 /\ Len(tokens) >= 2

(***************************************************************************)
(* C3: line starts at 1, never decreases and counts each consumed '\n'     *)
(* exactly once wherever it occurs, so it always is 1 + the number of      *)
(* '\n' among the consumed characters, and the Eof token's line is         *)
(* 1 + the number of '\n' in the whole source.                             *)
(***************************************************************************)
C3_LineCountsNewlines ==
  /\ [](line = 1 + NewlinesIn(source, current))
  /\ [](pc = "returned" => LastToken.line = 1 + NewlinesIn(source, Len(source)))
  /\ [][line' >= line]_vars

C3_Witness ==
  /\ FirstCallReturned
  /\ line >= 3
  /\ \E i \in 1..Len(tokens) :
       /\ tokens[i].token_type = "String"
       /\ \E j \in 1..Len(tokens[i].lexeme) : tokens[i].lexeme[j] = "\n"

(***************************************************************************)
(* C4: every emitted non-Eof token's line is the line on which its first   *)
(* character appears: 1 + the number of '\n' before its start offset.      *)
(***************************************************************************)
C4_TokenLineIsStartLine ==
  [][(Len(tokens') > Len(tokens) /\ tokens'[Len(tokens')].token_type # "Eof") =>
       tokens'[Len(tokens')].line = 1 + NewlinesIn(source, start')]_vars

\* the offset of the first '\n' at or after offset i, or the end of s
LineEnd(s, i) ==
  CHOOSE j \in i..Len(s) :
    /\ j = Len(s) \/ s[j + 1] = "\n"
    /\ \A k \in i..(j - 1) : s[k + 1] # "\n"

\* The offset after the "*/" that closes a comment whose text continues at
\* offset i with d comments open, reading it as nested parentheses; -1 when
\* s ends first.
RECURSIVE CommentClose(_, _, _)
CommentClose(s, i, d) ==
  IF i >= Len(s) THEN -1
  ELSE IF i + 1 < Len(s) /\ s[i + 1] = "/" /\ s[i + 2] = "*"
  THEN CommentClose(s, i + 2, d + 1)
  ELSE IF i + 1 < Len(s) /\ s[i + 1] = "*" /\ s[i + 2] = "/"
  THEN IF d = 1 THEN i + 2 ELSE CommentClose(s, i + 2, d - 1)
  ELSE CommentClose(s, i + 1, d)

\* s from offset i on is whitespace, newlines, line comments and block
\* comments only (a block comment left open at the end of s included)
RECURSIVE OnlyBlank(_, _)
OnlyBlank(s, i) ==
  IF i >= Len(s) THEN TRUE
  ELSE IF s[i + 1] \in {" ", "\r", "\t", "\n"} THEN OnlyBlank(s, i + 1)
  ELSE IF i + 1 < Len(s) /\ s[i + 1] = "/" /\ s[i + 2] = "/"
  THEN OnlyBlank(s, LineEnd(s, i + 2))
  ELSE IF i + 1 < Len(s) /\ s[i + 1] = "/" /\ s[i + 2] = "*"
  THEN CommentClose(s, i + 2, 1) = -1 \/ OnlyBlank(s, CommentClose(s, i + 2, 1))
  ELSE FALSE

(***************************************************************************)
(* C5: a source made only of whitespace, line comments and block comments  *)
(* yields exactly one token, the Eof token.                                *)
(***************************************************************************)
C5_BlankSourceOnlyEof ==
  (FirstCallReturned /\ OnlyBlank(source, 0)) =>
    (Len(tokens) = 1 /\ tokens[1].token_type = "Eof")

C5_Witness ==
  /\ FirstCallReturned
  /\ OnlyBlank(source, 0)
  /\ Len(source) >= 7
  /\ errors = <<>>
  /\ line >= 2
  /\ \E i \in 1..(Len(source) - 1) : source[i] = "/" /\ source[i + 1] = "/"
  /\ \E i \in 1..(Len(source) - 1) : source[i] = "*" /\ source[i + 1] = "/"

(***************************************************************************)
(* C6: block comments balance like parentheses.  A comment that is closed  *)
(* ends at the "*/" that brings the nesting counter back to 0, not at the  *)
(* first "*/"; no token is emitted for it, no diagnostic is reported, and  *)
(* the scan resumes right after that "*/".                                 *)
(***************************************************************************)
C6_BlockCommentsBalance ==
  [][/\ (pc = "block_comment" \/ pc' = "block_comment") => tokens' = tokens
     /\ (pc = "block_comment" /\ CommentClose(source, start + 2, 1) # -1) =>
          /\ errors' = errors
          /\ current' <= CommentClose(source, start + 2, 1)
          /\ pc' # "block_comment" =>
               /\ nesting = 0
               /\ pc' = "scan_tokens"
               /\ current' = CommentClose(source, start + 2, 1)]_vars

C6_Witness ==
  /\ pc = "scan_tokens"
  /\ calls = 1
  /\ source = <<"/", "*", "/", "*", "*", "/", "*", "/">>
  /\ start = 0
  /\ current = 8
  /\ tokens = <<>>
  /\ errors = <<>>

(***************************************************************************)
(* C7: when the source is exhausted with the nesting counter still         *)
(* positive, exactly one "Unterminated block comment" diagnostic is        *)
(* reported, at the current line, and no token is emitted for the comment; *)
(* when the counter reaches 0, even at the last character, none is.        *)
(***************************************************************************)
C7_UnterminatedBlockComment ==
  [][pc = "block_comment" =>
       /\ tokens' = tokens
       /\ IF pc' # "block_comment" /\ nesting > 0
          THEN /\ is_at_end(current)
               /\ errors' = Append(errors,
                    [line |-> line, message |-> "Unterminated block comment"])
          ELSE errors' = errors
       /\ (is_at_end(current) /\ nesting > 0) => pc' # "block_comment"]_vars

C7_Witness ==
  /\ pc = "scan_tokens"
  /\ calls = 1
  /\ is_at_end(current)
  /\ Len(tokens) = 1
  /\ errors = <<[line |-> 2, message |-> "Unterminated block comment"]>>

(***************************************************************************)
(* C8: a terminated string literal yields exactly one String token; its    *)
(* lexeme is the source from the opening quote through the closing quote   *)
(* and its literal is Str of the characters strictly between the two       *)
(* quotes, backslashes and newlines kept as they are.                      *)
(***************************************************************************)
C8_StringToken ==
  [][(pc = "string" /\ pc' # "string" /\ ~is_at_end(current)) =>
       /\ Len(tokens') = Len(tokens) + 1
       /\ SubSeq(tokens', 1, Len(tokens)) = tokens
       /\ errors' = errors
       /\ LET t == tokens'[Len(tokens')]
              n == Len(t.lexeme)
          IN  /\ t.token_type = "String"
              /\ t.lexeme = SubSeq(source, start + 1, current + 1)
              /\ n >= 2
              /\ t.lexeme[1] = "\"" /\ t.lexeme[n] = "\""
              /\ t.literal.kind = "Str"
              /\ t.literal.str = [i \in 1..(n - 2) |-> t.lexeme[i + 1]]]_vars

C8_Witness ==
  /\ FirstCallReturned
  /\ \E i \in 1..Len(tokens) :
       /\ tokens[i].token_type = "String"
       /\ tokens[i].literal.str = <<"\\", "\n", "a">>

(***************************************************************************)
(* C9: a '"' immediately preceded by a backslash inside the string is      *)
(* escaped and does not terminate the string literal.                      *)
(***************************************************************************)
C9_EscapedQuoteDoesNotTerminate ==
  [][(pc = "string" /\ pc' # "string" /\ ~is_at_end(current)) =>
       ~(current > start + 1 /\ source[current] = "\\")]_vars

(***************************************************************************)
(* C10: when the source ends inside a string, exactly one "Unterminated    *)
(* string" diagnostic is reported, no token is emitted for the characters  *)
(* from the opening quote on, the tokens emitted before are unchanged, and *)
(* the Eof token is still appended.                                        *)
(***************************************************************************)
C10_UnterminatedString ==
  [][/\ (pc = "string" \/ pc' = "string") =>
          IF pc' # "string" /\ is_at_end(current)
          THEN /\ tokens' = tokens
               /\ errors' = Append(errors,
                    [line |-> line, message |-> "Unterminated string"])
               /\ pc' = "scan_tokens"
               /\ current' = current
          ELSE /\ errors' = errors
               /\ pc' = "string" => tokens' = tokens
     /\ (pc = "scan_tokens" /\ is_at_end(current)) =>
          (tokens' = Append(tokens, Token("Eof", <<>>, NoLiteral, line))
             /\ errors' = errors)]_vars

C10_Witness ==
  /\ FirstCallReturned
  /\ Len(errors) = 1
  /\ errors[1] = [line |-> 2, message |-> "Unterminated string"]
  /\ Len(tokens) = 2
  /\ tokens[1].token_type = "Identifier"
  /\ tokens[2].token_type = "Eof"

\* the token appended by the step, when the step appends one
Emitted == tokens'[Len(tokens')]

Emits == tokens' = Append(tokens, Emitted)

\* the offset after the maximal run of ASCII digits of s that starts at offset i
DigitRunEnd(s, i) ==
  CHOOSE j \in i..Len(s) :
    /\ \A k \in (i + 1)..j : s[k] \in Digits
    /\ j = Len(s) \/ s[j + 1] \notin Digits

\* the offset after the number that starts at offset i of s
NumberEnd(s, i) ==
  LET e == DigitRunEnd(s, i)
  IN  IF e + 1 < Len(s) /\ s[e + 1] = "." /\ s[e + 2] \in Digits
      THEN DigitRunEnd(s, e + 1)
      ELSE e

(***************************************************************************)
(* C11: on '!', '=', '<' or '>' at top level, a following '=' gives one    *)
(* token of the two-character kind with a two-character lexeme and both    *)
(* characters consumed; anything else (or the end of source) gives one     *)
(* token of the one-character kind with a one-character lexeme, and the    *)
(* following character is left for the next dispatch.                      *)
(***************************************************************************)
C11_OneOrTwoCharOperators ==
  [][(Dispatching /\ source[current + 1] \in {"!", "=", "<", ">"}) =>
       LET c == source[current + 1]
           two == current + 1 < Len(source) /\ source[current + 2] = "="
       IN  /\ Emits
           /\ Emitted.token_type =
                (CASE c = "!" -> IF two THEN "BangEqual" ELSE "Bang"
                   [] c = "=" -> IF two THEN "EqualEqual" ELSE "Equal"
                   [] c = "<" -> IF two THEN "LessEqual" ELSE "Less"
                   [] c = ">" -> IF two THEN "GreaterEqual" ELSE "Greater")
           /\ Emitted.lexeme = (IF two THEN <<c, "=">> ELSE <<c>>)
           /\ current' = (IF two THEN current + 2 ELSE current + 1)
           /\ pc' = "scan_tokens"
           /\ errors' = errors]_vars

C11_Witness ==
  /\ FirstCallReturned
  /\ source = <<"<", "=", "=">>
  /\ Len(tokens) = 3
  /\ tokens[1].token_type = "LessEqual"
  /\ tokens[2].token_type = "Equal"

(***************************************************************************)
(* C12: a Number token's lexeme is the maximal run of ASCII digits at its  *)
(* start, extended by '.' and a maximal non-empty digit run only when the  *)
(* '.' is immediately followed by a digit; a '.' not followed by a digit   *)
(* is left to be emitted afterwards as a Dot token; at most one '.' is     *)
(* part of a Number lexeme.                                                *)
(***************************************************************************)
C12_NumberLexeme ==
  [][/\ (Len(tokens') > Len(tokens) /\ Emitted.token_type = "Number") =>
          /\ source[start + 1] \in Digits
          /\ current' = NumberEnd(source, start)
          /\ Emitted.lexeme = SubSeq(source, start + 1, NumberEnd(source, start))
          /\ Cardinality({i \in 1..Len(Emitted.lexeme) : Emitted.lexeme[i] = "."}) <= 1
          /\ pc' = "scan_tokens"
     /\ (Dispatching /\ source[current + 1] = ".") =>
          /\ Emits
          /\ Emitted.token_type = "Dot"
          /\ Emitted.lexeme = <<".">>
          /\ current' = current + 1]_vars

C12_Witness ==
  /\ FirstCallReturned
  /\ source = <<"1", "0", ".", "1", ".">>
  /\ Len(tokens) = 3
  /\ tokens[1].token_type = "Number"
  /\ tokens[1].lexeme = <<"1", "0", ".", "1">>
  /\ tokens[2].token_type = "Dot"

\* the offset after the maximal run of ASCII letters, digits and '_' of s
\* that starts at offset i
IdentEnd(s, i) ==
  CHOOSE j \in i..Len(s) :
    /\ \A k \in (i + 1)..j : s[k] \in Letters \cup Digits \cup {"_"}
    /\ j = Len(s) \/ s[j + 1] \notin Letters \cup Digits \cup {"_"}

\* the 16 reserved words and their token kinds
ReservedKind ==
  [w \in KeywordTexts |->
     CASE w = <<"a", "n", "d">> -> "And"
       [] w = <<"c", "l", "a", "s", "s">> -> "Class"
       [] w = <<"e", "l", "s", "e">> -> "Else"
       [] w = <<"f", "a", "l", "s", "e">> -> "False"
       [] w = <<"f", "u", "n">> -> "Fun"
       [] w = <<"f", "o", "r">> -> "For"
       [] w = <<"i", "f">> -> "If"
       [] w = <<"n", "i", "l">> -> "Nil"
       [] w = <<"o", "r">> -> "Or"
       [] w = <<"p", "r", "i", "n", "t">> -> "Print"
       [] w = <<"r", "e", "t", "u", "r", "n">> -> "Return"
       [] w = <<"s", "u", "p", "e", "r">> -> "Super"
       [] w = <<"t", "h", "i", "s">> -> "This"
       [] w = <<"t", "r", "u", "e">> -> "True"
       [] w = <<"v", "a", "r">> -> "Var"
       [] w = <<"w", "h", "i", "l", "e">> -> "While"]

(***************************************************************************)
(* C13: on an ASCII letter or '_' the scanner consumes the maximal run of  *)
(* ASCII letters, digits and '_' and emits exactly one token for it: the   *)
(* keyword kind if and only if the whole run is one of the 16 reserved     *)
(* words, otherwise Identifier (also when the run only starts with or      *)
(* contains a reserved word).                                              *)
(***************************************************************************)
C13_IdentifierOrKeyword ==
  [][/\ (Dispatching /\ source[current + 1] \in Letters \cup {"_"}) =>
          (pc' = "identifier" /\ tokens' = tokens)
     /\ pc = "identifier" =>
          IF pc' = "identifier"
          THEN tokens' = tokens /\ current' <= IdentEnd(source, start)
          ELSE /\ Emits
               /\ pc' = "scan_tokens"
               /\ current' = IdentEnd(source, start)
               /\ Emitted.lexeme = SubSeq(source, start + 1, IdentEnd(source, start))
               /\ Emitted.token_type =
                    (IF Emitted.lexeme \in KeywordTexts
                     THEN ReservedKind[Emitted.lexeme]
                     ELSE "Identifier")]_vars

C13_Witness ==
  /\ FirstCallReturned
  /\ Len(tokens) = 3
  /\ tokens[1].token_type = "While"
  /\ tokens[2].token_type = "Identifier"
  /\ tokens[2].lexeme = <<"w", "h", "i", "l", "e", "1">>

(***************************************************************************)
(* C14: a token's literal is present if and only if its kind is String,    *)
(* Number, True, False or Nil: Str for String, Number for Number,          *)
(* Bool(true) for True, Bool(false) for False, Nil for Nil; every other    *)
(* kind, Identifier and Eof included, has none.                            *)
(***************************************************************************)
C14_LiteralPresence ==
  \A i \in 1..Len(tokens) :
    LET t == tokens[i]
    IN  /\ (t.literal.kind # "None") <=>
             (t.token_type \in {"String", "Number", "True", "False", "Nil"})
        /\ t.token_type = "String" => t.literal.kind = "Str"
        /\ t.token_type = "Number" => t.literal.kind = "Number"
        /\ t.token_type = "True" => (t.literal.kind = "Bool" /\ t.literal.bool = TRUE)
        /\ t.token_type = "False" => (t.literal.kind = "Bool" /\ t.literal.bool = FALSE)
        /\ t.token_type = "Nil" => t.literal.kind = "Nil"

C14_Witness ==
  /\ FirstCallReturned
  /\ Len(tokens) = 3
  /\ tokens[1].token_type = "Number"
  /\ tokens[2].token_type = "False"
  /\ tokens[2].literal = LiteralBool(FALSE)

\* the characters some arm of the dispatch expects
ExpectedChars ==
  {"(", ")", "{", "}", ",", ".", "-", "+", ";", "*", "!", "=", "<", ">", "/",
   " ", "\r", "\t", "\n", "\"", "_"} \cup Digits \cup Letters

(***************************************************************************)
(* C15: an unexpected character is not fatal: its dispatch consumes that   *)
(* one character, reports exactly one "Unexpected character" diagnostic    *)
(* with the current line, emits no token, and the scan resumes at the next *)
(* character, so the tokens that follow are still produced.                *)
(***************************************************************************)
C15_UnexpectedCharacter ==
  [][(Dispatching /\ source[current + 1] \notin ExpectedChars) =>
       /\ current' = current + 1
       /\ errors' = Append(errors, [line |-> line, message |-> "Unexpected character"])
       /\ tokens' = tokens
       /\ line' = line
       /\ pc' = "scan_tokens"]_vars

C15_Witness ==
  /\ FirstCallReturned
  /\ source = <<"@", "a", "=">>
  /\ errors = <<[line |-> 1, message |-> "Unexpected character"]>>
  /\ Len(tokens) = 3
  /\ tokens[1].token_type = "Identifier"
  /\ tokens[2].token_type = "Equal"

\* the lexemes of the tokens from the i-th on can be laid on s, in order, on
\* disjoint spans that start at offset pos or later and end by offset lim
RECURSIVE Placed(_, _, _, _, _)
Placed(toks, i, s, pos, lim) ==
  IF i > Len(toks) THEN TRUE
  ELSE IF toks[i].token_type = "Eof" THEN Placed(toks, i + 1, s, pos, lim)
  ELSE LET n == Len(toks[i].lexeme)
       IN  \E b \in pos..(lim - n) :
             /\ SubSeq(s, b + 1, b + n) = toks[i].lexeme
             /\ Placed(toks, i + 1, s, b + n, lim)

(***************************************************************************)
(* C16: every non-Eof token's lexeme is non-empty and is the source        *)
(* substring [start, current) at the moment of emission; the spans of      *)
(* successive tokens are disjoint and increase in source order (each       *)
(* token starts where a dispatch found the cursor, and the cursor never    *)
(* moves back), so the lexemes lie on the consumed source in order.        *)
(***************************************************************************)
C16_LexemesAreSourceSpans ==
  /\ [][/\ (Len(tokens') > Len(tokens) /\ Emitted.token_type # "Eof") =>
             /\ Emits
             /\ start' < current'
             /\ Emitted.lexeme = SubSeq(source, start' + 1, current')
        /\ current' >= current
        /\ start' = (IF Dispatching THEN current ELSE start)]_vars
  /\ [](Placed(tokens, 1, source, 0, current))

C16_Witness ==
  /\ FirstCallReturned
  /\ source = <<"a", " ", "1", ".">>
  /\ Len(tokens) = 4
  /\ tokens[1].lexeme = <<"a">>
  /\ tokens[2].lexeme = <<"1">>
  /\ tokens[3].lexeme = <<".">>

(***************************************************************************)
(* C17: in every reachable state start <= current <= len(source), and      *)
(* every read of the source (by advance, match_char, peek, peek_next and   *)
(* the lexeme and literal slices, the string literal's                     *)
(* [start + 1, current - 1) included) is inside the source: a step reads   *)
(* the characters it consumes, so it never moves current past the end,     *)
(* and a slice is taken with its ends in order.                            *)
(***************************************************************************)
C17_IndicesInBounds ==
  /\ [](0 <= start /\ start <= current /\ current <= Len(source))
  /\ [][/\ current' > current => current < Len(source)
        /\ Len(tokens') > Len(tokens) =>
             (0 <= start' /\ start' <= current' /\ current' <= Len(source))
        /\ (Len(tokens') > Len(tokens) /\ Emitted.token_type = "String") =>
             (start' + 1 <= current' - 1 /\ current' - 1 <= Len(source))]_vars

C17_Witness ==
  /\ FirstCallReturned
  /\ source = <<"\"", "\"", "/", "*">>
  /\ current = Len(source)
  /\ Len(tokens) = 2
  /\ tokens[1].literal = LiteralStr(<<>>)
  /\ Len(errors) = 1

(***************************************************************************)
(* C18: a line comment consumes every character up to but not including    *)
(* the next '\n' (or to the end of source), emits no token and reports no  *)
(* diagnostic; a "/*", a "*/" or a quote inside it opens nothing; the      *)
(* '\n' that ends it is consumed afterwards by the dispatch, which         *)
(* increments line.                                                        *)
(***************************************************************************)
C18_LineComment ==
  [][/\ (pc = "line_comment" \/ pc' = "line_comment") =>
          /\ tokens' = tokens
          /\ errors' = errors
          /\ line' = line
          /\ nesting' = nesting
     /\ (pc # "line_comment" /\ pc' = "line_comment") =>
          (current' = start' + 2 /\ SubSeq(source, start' + 1, start' + 2) = <<"/", "/">>)
     /\ pc = "line_comment" =>
          /\ pc' \in {"line_comment", "scan_tokens"}
          /\ current' <= LineEnd(source, start + 2)
          /\ pc' = "scan_tokens" => current' = LineEnd(source, start + 2)
     /\ (Dispatching /\ source[current + 1] = "\n") =>
          /\ line' = line + 1
          /\ current' = current + 1
          /\ tokens' = tokens
          /\ pc' = "scan_tokens"]_vars

C18_Witness ==
  /\ FirstCallReturned
  /\ source = <<"/", "/", "\"", "\n">>
  /\ errors = <<>>
  /\ Len(tokens) = 1
  /\ tokens[1].line = 2

\* the two characters of s at offset i are a then b
At2(s, i, a, b) == i + 1 < Len(s) /\ s[i + 1] = a /\ s[i + 2] = b

(***************************************************************************)
(* C19: inside a block comment the two characters of a delimiter are       *)
(* consumed together and never reused: the '*' of the opening "/*" is      *)
(* consumed on entry, so the source "/*/" is an unterminated comment; at   *)
(* each position "/*" is tested before "*/", and any other character is    *)
(* consumed singly.                                                        *)
(***************************************************************************)
C19_DelimitersConsumedWhole ==
  /\ [][/\ (pc # "block_comment" /\ pc' = "block_comment") =>
             /\ At2(source, start', "/", "*")
             /\ current' = start' + 2
             /\ nesting' = 1
        /\ (pc = "block_comment" /\ pc' = "block_comment") =>
             IF At2(source, current, "/", "*")
             THEN current' = current + 2 /\ nesting' = nesting + 1
             ELSE IF At2(source, current, "*", "/")
             THEN current' = current + 2 /\ nesting' = nesting - 1
             ELSE current' = current + 1 /\ nesting' = nesting]_vars
  /\ []((FirstCallReturned /\ source = <<"/", "*", "/">>) =>
          /\ errors = <<[line |-> 1, message |-> "Unterminated block comment"]>>
          /\ Len(tokens) = 1)

C19_Witness ==
  /\ FirstCallReturned
  /\ source = <<"/", "*", "/">>
  /\ Len(errors) = 1

\* l is digit+ or digit+ '.' digit+
NumberShape(l) ==
  \E k \in 1..Len(l) :
    /\ \A i \in 1..k : l[i] \in Digits
    /\ \/ k = Len(l)
       \/ /\ k + 2 <= Len(l)
          /\ l[k + 1] = "."
          /\ \A i \in (k + 2)..Len(l) : l[i] \in Digits

(***************************************************************************)
(* C20: every Number token's lexeme is digit+ or digit+ '.' digit+, so the *)
(* fallback of the float parse ("Invalid number", literal 0.0) is never    *)
(* reached; a dispatched number emits exactly one Number token.            *)
(***************************************************************************)
C20_NumberAlwaysParses ==
  /\ [](/\ \A i \in 1..Len(tokens) :
             tokens[i].token_type = "Number" => NumberShape(tokens[i].lexeme)
        /\ \A i \in 1..Len(errors) : errors[i].message # "Invalid number")
  /\ [][/\ (Dispatching /\ source[current + 1] \in Digits) =>
             (pc' = "number" /\ tokens' = tokens)
        /\ pc \in {"number", "fraction"} =>
             /\ errors' = errors
             /\ IF pc' \in {"number", "fraction"}
                THEN tokens' = tokens
                ELSE /\ Emits
                     /\ Emitted.token_type = "Number"
                     /\ pc' = "scan_tokens"]_vars

C20_Witness ==
  /\ FirstCallReturned
  /\ source = <<"1", ".", "1", ".", "0">>
  /\ errors = <<>>
  /\ Len(tokens) = 4
  /\ tokens[1].literal = LiteralNumber(11, 1)
  /\ tokens[3].literal = LiteralNumber(0, 0)

(***************************************************************************)
(* C21: scan_tokens is idempotent on a Scanner: a second or later call     *)
(* returns the token sequence the first call returned (no step of such a   *)
(* call changes tokens), and what a call returns always holds exactly one  *)
(* Eof token, as its last element.                                         *)
(***************************************************************************)
C21_ScanTokensIdempotent ==
  /\ [][calls' >= 2 => tokens' = tokens]_vars
  /\ [](pc = "returned" =>
          /\ Len(tokens) >= 1
          /\ LastToken.token_type = "Eof"
          /\ \A i \in 1..(Len(tokens) - 1) : tokens[i].token_type # "Eof")

UnterminatedMessages == {"Unterminated string", "Unterminated block comment"}

\* the diagnostic reported last is one of an unterminated construct
LastIsUnterminated ==
  Len(errors) >= 1 /\ errors[Len(errors)].message \in UnterminatedMessages

(***************************************************************************)
(* C22: an "Unterminated string" or "Unterminated block comment"           *)
(* diagnostic is reported only with the cursor at the end of the source,   *)
(* by a step that moves nothing and emits nothing; once it is reported no  *)
(* diagnostic follows and the only token that follows is Eof, so it is the *)
(* last diagnostic and the only one of its kind.                           *)
(***************************************************************************)
C22_UnterminatedIsLast ==
  /\ [](\A i \in 1..Len(errors) :
          errors[i].message \in UnterminatedMessages =>
            (i = Len(errors) /\ current = Len(source)))
  /\ [][/\ (Len(errors') > Len(errors) /\ LastIsUnterminated') =>
             /\ is_at_end(current)
             /\ current' = current
             /\ tokens' = tokens
             /\ pc' = "scan_tokens"
        /\ LastIsUnterminated =>
             /\ errors' = errors
             /\ current' = current
             /\ tokens' # tokens => (Emits /\ Emitted = EofToken(line))]_vars

C22_Witness ==
  /\ FirstCallReturned
  /\ source = <<"\\", "a", "/", "*">>
  /\ Len(errors) = 2
  /\ errors[1].message = "Unexpected character"
  /\ errors[2].message = "Unterminated block comment"
  /\ Len(tokens) = 2

====
